---- MODULE Spec2Model ----
(***************************************************************************)
(* Model of package errtypes (fvosberg/errtypes): five error categories,   *)
(* their constructors, the predicates that look for a category at the root *)
(* cause of an error chain, and HTTPStatusCode.                            *)
(*                                                                         *)
(* An error value is a sequence of layers, the outermost first.  The empty *)
(* sequence is the nil error.  A layer records its dynamic type, its       *)
(* message, its method set restricted to the category accessors (has), the *)
(* accessors that return true (yes) and whether the type has a             *)
(* Cause() error method (causer).  The cause of a layer is the rest of the *)
(* sequence; a causer layer in last position is a layer whose Cause()      *)
(* returns nil.                                                            *)
(***************************************************************************)
EXTENDS Integers, Sequences, FiniteSets, TLC

\* ------------------------------------------------------------------ bounds
\* the largest number of layers wrapped around a root
MaxWrap == 2
\* the largest number of arguments passed to a formatting constructor
MaxArgs == 2

\* ------------------------------------------------------------- categories
\* the five capability interfaces, in the order HTTPStatusCode tests them
Categories == <<"BadInput", "Unauthenticated", "Forbidden", "NotFound", "Conflict">>

Cats == {Categories[i] : i \in 1..Len(Categories)}

Nil == <<>>

\* ------------------------------------------------------------ fmt.Sprintf
\* A format string is kept as its sequence of tokens: a verb ("%s", "%d",
\* "%v"), the escape "%%", or a run of literal text.  An argument is a
\* string or an int.
StrArg(s) == [t |-> "string", str |-> s, n |-> 0]

IntArg(n) == [t |-> "int", str |-> "", n |-> n]

Verbs == {"%s", "%d", "%v"}

VerbChar(v) == CASE v = "%s" -> "s" [] v = "%d" -> "d" [] v = "%v" -> "v"

\* the operand as %v prints it
ArgText(a) == IF a.t = "string" THEN a.str ELSE ToString(a.n)

\* one verb applied to one operand; a verb of the wrong kind prints
\* %!verb(type=value)
FormatArg(v, a) ==
    IF v = "%v" \/ (v = "%s" /\ a.t = "string") \/ (v = "%d" /\ a.t = "int")
    THEN ArgText(a)
    ELSE "%!" \o VerbChar(v) \o "(" \o a.t \o "=" \o ArgText(a) \o ")"

RECURSIVE ExtraList(_)
ExtraList(a) ==
    IF Len(a) = 1 THEN Head(a).t \o "=" \o ArgText(Head(a))
    ELSE Head(a).t \o "=" \o ArgText(Head(a)) \o ", " \o ExtraList(Tail(a))

\* operands left over once the format is exhausted
Extra(a) == IF a = <<>> THEN "" ELSE "%!(EXTRA " \o ExtraList(a) \o ")"

RECURSIVE Sprintf(_, _)
Sprintf(f, a) ==
    IF f = <<>> THEN Extra(a)
    ELSE LET t == Head(f) IN
         IF t = "%%" THEN "%" \o Sprintf(Tail(f), a)
         ELSE IF t \in Verbs
              THEN IF a = <<>>
                   THEN "%!" \o VerbChar(t) \o "(MISSING)" \o Sprintf(Tail(f), a)
                   ELSE FormatArg(t, Head(a)) \o Sprintf(Tail(f), Tail(a))
              ELSE t \o Sprintf(Tail(f), a)

\* the format string itself, as written
RECURSIVE Raw(_)
Raw(f) == IF f = <<>> THEN "" ELSE Head(f) \o Raw(Tail(f))

\* ------------------------------------------------------------ error types
Layer(typ, s, has, yes, causer) ==
    [typ |-> typ, s |-> s, has |-> has, yes |-> yes, causer |-> causer]

badInputError(s) == Layer("badInputError", s, {"BadInput"}, {"BadInput"}, FALSE)

unauthenticatedError(s) ==
    Layer("unauthenticatedError", s, {"Unauthenticated"}, {"Unauthenticated"}, FALSE)

forbiddenError(s) == Layer("forbiddenError", s, {"Forbidden"}, {"Forbidden"}, FALSE)

notFoundError(s) == Layer("notFoundError", s, {"NotFound"}, {"NotFound"}, FALSE)

conflictError(s) == Layer("conflictError", s, {"Conflict"}, {"Conflict"}, FALSE)

\* errors.New: a plain error, no category accessor, no cause
fundamental(s) == Layer("fundamental", s, {}, {}, FALSE)

\* errors.Wrap / errors.WithMessage: a context layer with a Cause() method
withMessage(s) == Layer("withMessage", s, {}, {}, TRUE)

\* a type declared outside the package that implements some of the exported
\* interfaces
custom(has, yes, causer) == Layer("custom", "custom", has, yes, causer)

\* ----------------------------------------------------------- constructors
NewBadInput(s) == <<badInputError(s)>>

NewBadInputf_noFormat(f, a) == <<badInputError(Raw(f))>>

NewBadInputf(f, a) == <<badInputError(Sprintf(f, a))>>

NewUnauthenticated(s) == <<unauthenticatedError(s)>>

NewUnauthenticatedf(f, a) == <<unauthenticatedError(Sprintf(f, a))>>

NewForbidden(s) == <<forbiddenError(s)>>

NewForbiddenf(f, a) == <<forbiddenError(Sprintf(f, a))>>

NewNotFound(s) == <<notFoundError(s)>>

NewNotFoundf(f, a) == <<notFoundError(Sprintf(f, a))>>

NewConflict(s) == <<conflictError(s)>>

NewConflictf(f, a) == <<conflictError(Sprintf(f, a))>>

\* the constructor of category c
New(c, s) ==
    CASE c = "BadInput" -> NewBadInput(s)
      [] c = "Unauthenticated" -> NewUnauthenticated(s)
      [] c = "Forbidden" -> NewForbidden(s)
      [] c = "NotFound" -> NewNotFound(s)
      [] c = "Conflict" -> NewConflict(s)

\* the formatting constructor of category c
Newf(c, f, a) ==
    CASE c = "BadInput" -> NewBadInputf(f, a)
      [] c = "Unauthenticated" -> NewUnauthenticatedf(f, a)
      [] c = "Forbidden" -> NewForbiddenf(f, a)
      [] c = "NotFound" -> NewNotFoundf(f, a)
      [] c = "Conflict" -> NewConflictf(f, a)

\* ------------------------------------------------------------ errors.Cause
\* for err != nil { cause, ok := err.(causer); if !ok { break }; err = cause.Cause() }
RECURSIVE Cause(_)
Cause(err) ==
    IF err = Nil THEN Nil
    ELSE IF ~Head(err).causer THEN err
    ELSE Cause(Tail(err))

\* v, ok := e.(C): ok iff the dynamic type of e has the accessor of C
Implements(e, c) == e # Nil /\ c \in Head(e).has

\* v.IsC(), for a v that implements C
Accessor(e, c) == c \in Head(e).yes

\* ------------------------------------------------------------- predicates
IsBadInput_noCause(err) ==
    Implements(err, "BadInput") /\ Accessor(err, "BadInput")

IsBadInput_noOk(err) ==
    Implements(Cause(err), "BadInput") => Accessor(Cause(err), "BadInput")

IsBadInput(err) ==
    LET bi == Cause(err) IN Implements(bi, "BadInput") /\ Accessor(bi, "BadInput")

IsUnauthenticated(err) ==
    LET bi == Cause(err) IN
    Implements(bi, "Unauthenticated") /\ Accessor(bi, "Unauthenticated")

IsForbidden_outermost(err) ==
    Implements(err, "Forbidden") /\ Accessor(err, "Forbidden")

IsForbidden(err) ==
    LET bi == Cause(err) IN Implements(bi, "Forbidden") /\ Accessor(bi, "Forbidden")

IsNotFound_noCause(err) ==
    Implements(err, "NotFound") /\ Accessor(err, "NotFound")

IsNotFound(err) ==
    LET bi == Cause(err) IN Implements(bi, "NotFound") /\ Accessor(bi, "NotFound")

IsConflict_copied(err) ==
    LET v == Cause(err) IN Implements(v, "NotFound") /\ Accessor(v, "NotFound")

IsConflict(err) ==
    LET v == Cause(err) IN Implements(v, "Conflict") /\ Accessor(v, "Conflict")

\* the predicate of category c
Is(c, err) ==
    CASE c = "BadInput" -> IsBadInput(err)
      [] c = "Unauthenticated" -> IsUnauthenticated(err)
      [] c = "Forbidden" -> IsForbidden(err)
      [] c = "NotFound" -> IsNotFound(err)
      [] c = "Conflict" -> IsConflict(err)

\* ------------------------------------------------------------------ Error
\* Error() of the five error types returns the stored message
ErrorText(e) == e.s

\* err.Error(): a withMessage layer prints its message, ": " and its cause
RECURSIVE Error(_)
Error(err) ==
    LET e == Head(err) IN
    IF e.typ = "withMessage" THEN e.s \o ": " \o Error(Tail(err))
    ELSE ErrorText(e)

\* --------------------------------------------------------- HTTPStatusCode
\* The outcome of a call: whether it panicked, the code returned (0 when it
\* did not return) and the predicates it evaluated, in order.
Outcome(panicked, code, tested) ==
    [panicked |-> panicked, code |-> code, tested |-> tested]

HTTPStatusCode_noNilCheck(err) ==
    IF IsBadInput(err) THEN Outcome(FALSE, 400, SubSeq(Categories, 1, 1))
    ELSE IF IsUnauthenticated(err) THEN Outcome(FALSE, 401, SubSeq(Categories, 1, 2))
    ELSE IF IsForbidden(err) THEN Outcome(FALSE, 403, SubSeq(Categories, 1, 3))
    ELSE IF IsNotFound(err) THEN Outcome(FALSE, 404, SubSeq(Categories, 1, 4))
    ELSE IF IsConflict(err) THEN Outcome(FALSE, 409, Categories)
    ELSE Outcome(FALSE, 500, Categories)

HTTPStatusCode_swapped(err) ==
    IF err = Nil THEN Outcome(TRUE, 0, <<>>)
    ELSE IF IsBadInput(err) THEN Outcome(FALSE, 400, SubSeq(Categories, 1, 1))
    ELSE IF IsUnauthenticated(err) THEN Outcome(FALSE, 401, SubSeq(Categories, 1, 2))
    ELSE IF IsForbidden(err) THEN Outcome(FALSE, 403, SubSeq(Categories, 1, 3))
    ELSE IF IsNotFound(err) THEN Outcome(FALSE, 409, SubSeq(Categories, 1, 4))
    ELSE IF IsConflict(err) THEN Outcome(FALSE, 404, Categories)
    ELSE Outcome(FALSE, 500, Categories)

HTTPStatusCode_reordered(err) ==
    IF err = Nil THEN Outcome(TRUE, 0, <<>>)
    ELSE IF IsBadInput(err) THEN Outcome(FALSE, 400, SubSeq(Categories, 1, 1))
    ELSE IF IsUnauthenticated(err) THEN Outcome(FALSE, 401, SubSeq(Categories, 1, 2))
    ELSE IF IsNotFound(err)
         THEN Outcome(FALSE, 404, <<"BadInput", "Unauthenticated", "NotFound">>)
    ELSE IF IsForbidden(err)
         THEN Outcome(FALSE, 403, <<"BadInput", "Unauthenticated", "NotFound", "Forbidden">>)
    ELSE IF IsConflict(err)
         THEN Outcome(FALSE, 409,
                <<"BadInput", "Unauthenticated", "NotFound", "Forbidden", "Conflict">>)
    ELSE Outcome(FALSE, 500,
                <<"BadInput", "Unauthenticated", "NotFound", "Forbidden", "Conflict">>)

HTTPStatusCode_noConflict(err) ==
    IF err = Nil THEN Outcome(TRUE, 0, <<>>)
    ELSE IF IsBadInput(err) THEN Outcome(FALSE, 400, SubSeq(Categories, 1, 1))
    ELSE IF IsUnauthenticated(err) THEN Outcome(FALSE, 401, SubSeq(Categories, 1, 2))
    ELSE IF IsForbidden(err) THEN Outcome(FALSE, 403, SubSeq(Categories, 1, 3))
    ELSE IF IsNotFound(err) THEN Outcome(FALSE, 404, SubSeq(Categories, 1, 4))
    ELSE Outcome(FALSE, 500, SubSeq(Categories, 1, 4))

HTTPStatusCode(err) ==
    IF err = Nil THEN Outcome(TRUE, 0, <<>>)
    ELSE IF IsBadInput(err) THEN Outcome(FALSE, 400, SubSeq(Categories, 1, 1))
    ELSE IF IsUnauthenticated(err) THEN Outcome(FALSE, 401, SubSeq(Categories, 1, 2))
    ELSE IF IsForbidden(err) THEN Outcome(FALSE, 403, SubSeq(Categories, 1, 3))
    ELSE IF IsNotFound(err) THEN Outcome(FALSE, 404, SubSeq(Categories, 1, 4))
    ELSE IF IsConflict(err) THEN Outcome(FALSE, 409, Categories)
    ELSE Outcome(FALSE, 500, Categories)

\* ----------------------------------------------------------------- inputs
Messages == {"", "x", "missing"}

WrapMessages == {"while loading config"}

Formats == {<<"%s", "-", "%d">>, <<"id=", "%v">>, <<"100", "%%">>}

ArgValues == {StrArg("a"), IntArg(1)}

ArgLists == UNION {[1..n -> ArgValues] : n \in 0..MaxArgs}

\* the method sets a type declared outside the package can have: for each
\* category, no accessor, an accessor returning false, or one returning true
CustomRoots == {custom(has, yes, FALSE) : <<has, yes>> \in
                  {p \in (SUBSET Cats) \X (SUBSET Cats) : p[2] \subseteq p[1]}}

\* wrapping layers declared outside the package: one that implements every
\* category itself and keeps its cause retrievable, and one that carries
\* nothing and has no Cause() method
CustomLayers == {custom(Cats, Cats, TRUE), custom({}, {}, FALSE)}

\* ------------------------------------------------------------------ state
VARIABLES err, origin, ret

vars == <<err, origin, ret>>

\* err: the error value under inspection
\* origin: how the root of err was built (history)
\* ret: the last call made on err and what it returned
Origin(ctor, cat, s, f, a) == [ctor |-> ctor, cat |-> cat, s |-> s, f |-> f, a |-> a]

Ret(op, cat, b, out, text) == [op |-> op, cat |-> cat, b |-> b, out |-> out, text |-> text]

NoRet == Ret("none", "none", FALSE, Outcome(FALSE, 0, <<>>), "")

Init ==
    /\ err = Nil
    /\ origin = Origin("none", "none", "", <<>>, <<>>)
    /\ ret = NoRet

\* ---------------------------------------------------------------- actions
\* A behaviour follows one error value: it is built once, where the failure
\* is detected (err is still nil), wrapped on its way up, and inspected.
\* err := NewC(s)
CallNew(c, s) ==
    /\ err = Nil
    /\ err' = New(c, s)
    /\ origin' = Origin("New", c, s, <<>>, <<>>)
    /\ ret' = NoRet

\* err := NewCf(f, a...)
CallNewf(c, f, a) ==
    /\ err = Nil
    /\ err' = Newf(c, f, a)
    /\ origin' = Origin("Newf", c, "", f, a)
    /\ ret' = NoRet

\* err := errors.New(s)
ErrorsNew(s) ==
    /\ err = Nil
    /\ err' = <<fundamental(s)>>
    /\ origin' = Origin("errors.New", "none", s, <<>>, <<>>)
    /\ ret' = NoRet

\* err := a value of a type declared outside the package
CustomNew(e) ==
    /\ err = Nil
    /\ err' = <<e>>
    /\ origin' = Origin("custom", "none", e.s, <<>>, <<>>)
    /\ ret' = NoRet

\* err := errors.Wrap(err, msg), which returns nil for a nil err
Wrap(msg) ==
    /\ err # Nil
    /\ Len(err) <= MaxWrap
    /\ err' = <<withMessage(msg)>> \o err
    /\ UNCHANGED origin
    /\ ret' = NoRet

\* err := a layer declared outside the package around err (around nil too:
\* its Cause() then returns nil)
CustomWrap(e) ==
    /\ Len(err) <= MaxWrap
    /\ err' = <<e>> \o err
    /\ origin' = IF err = Nil THEN Origin("custom", "none", e.s, <<>>, <<>>) ELSE origin
    /\ ret' = NoRet

\* IsC(err)
CallIs(c) ==
    /\ ret' = Ret("Is", c, Is(c, err), NoRet.out, "")
    /\ UNCHANGED <<err, origin>>

\* HTTPStatusCode(err)
CallHTTPStatusCode ==
    /\ ret' = Ret("HTTPStatusCode", "none", FALSE, HTTPStatusCode(err), "")
    /\ UNCHANGED <<err, origin>>

\* err.Error()
CallError ==
    /\ err # Nil
    /\ ret' = Ret("Error", "none", FALSE, NoRet.out, Error(err))
    /\ UNCHANGED <<err, origin>>

Next ==
    \/ \E c \in Cats, s \in Messages : CallNew(c, s)
    \/ \E c \in Cats, f \in Formats, a \in ArgLists : CallNewf(c, f, a)
    \/ \E s \in Messages : ErrorsNew(s)
    \/ \E e \in CustomRoots : CustomNew(e)
    \/ \E msg \in WrapMessages : Wrap(msg)
    \/ \E e \in CustomLayers : CustomWrap(e)
    \/ \E c \in Cats : CallIs(c)
    \/ CallHTTPStatusCode
    \/ CallError

Spec == Init /\ [][Next]_vars

\* ------------------------------------------------------------- properties
\* every layer above the last keeps its cause retrievable and the last layer
\* is a root: it has no Cause() method
Retrievable(e) ==
    /\ e # Nil
    /\ ~e[Len(e)].causer
    /\ \A i \in 1..(Len(e) - 1) : e[i].causer

\* the root of a retrievable chain, on its own
RootOf(e) == <<e[Len(e)]>>

\* where following the cause links from e stops: the chain from the first
\* layer that has no Cause() method, or nil when every layer has one
ChainRoot(e) ==
    IF \A i \in 1..Len(e) : e[i].causer THEN Nil
    ELSE LET k == CHOOSE i \in 1..Len(e) :
                    ~e[i].causer /\ \A j \in 1..(i - 1) : e[j].causer
         IN SubSeq(e, k, Len(e))

\* the layers that keep their cause retrievable, and the stacks of them
CausingLayers ==
    {withMessage(m) : m \in WrapMessages} \cup {l \in CustomLayers : l.causer}

Stacks == UNION {[1..n -> CausingLayers] : n \in 0..MaxWrap}

\* the status code of each category (spec section 6)
CodeOf(c) ==
    CASE c = "BadInput" -> 400
      [] c = "Unauthenticated" -> 401
      [] c = "Forbidden" -> 403
      [] c = "NotFound" -> 404
      [] c = "Conflict" -> 409

Categorized == origin.ctor \in {"New", "Newf"}

\* C1: for every category C and message s, IsC(NewC(s)) is true and the
\* predicate of every other category is false on NewC(s).
C1_ConstructorCarriesItsCategory ==
    (origin.ctor = "New" /\ Len(err) = 1 /\ ret.op = "Is")
        => (ret.b <=> ret.cat = origin.cat)

C1_Witness ==
    /\ origin.ctor = "New" /\ origin.cat = "Conflict" /\ origin.s = ""
    /\ err = NewConflict("")
    /\ ret.op = "Is" /\ ret.cat = "Conflict" /\ ret.b

\* C2: a categorized root wrapped in any number of layers that keep their
\* cause retrievable answers every predicate as the root does: true for its
\* own category, false for the others.
C2_WrappingPreservesCategory ==
    (Categorized /\ Retrievable(err) /\ ret.op = "Is")
        => (ret.b <=> ret.cat = origin.cat)

C2_Witness ==
    /\ origin.ctor = "New" /\ origin.cat = "NotFound"
    /\ Len(err) = 3 /\ err[1].typ = "withMessage" /\ err[2].typ = "withMessage"
    /\ ret.op = "Is" /\ ret.cat = "NotFound" /\ ret.b

\* C3: HTTPStatusCode(NewC(s)) is the code of C: 400, 401, 403, 404, 409.
C3_StatusOfConstructed ==
    (origin.ctor = "New" /\ Len(err) = 1 /\ ret.op = "HTTPStatusCode")
        => (~ret.out.panicked /\ ret.out.code = CodeOf(origin.cat))

C3_Witness ==
    /\ origin.ctor = "New" /\ origin.cat = "Conflict" /\ Len(err) = 1
    /\ ret.op = "HTTPStatusCode" /\ ret.out.code = 409

C5_FirstMatchInOrder ==
    (ret.op = "HTTPStatusCode" /\ err # Nil)
        => \A i \in 1..Len(Categories) :
              (Is(Categories[i], err) /\ \A j \in 1..(i - 1) : ~Is(Categories[j], err))
                  => /\ ~ret.out.panicked
                     /\ ret.out.code = CodeOf(Categories[i])
                     /\ ret.out.tested = SubSeq(Categories, 1, i)

C5_Witness ==
    /\ Len(err) = 1 /\ err[1].typ = "custom"
    /\ "BadInput" \in err[1].has \ err[1].yes
    /\ {"Forbidden", "NotFound", "Conflict"} \subseteq err[1].yes
    /\ "Unauthenticated" \notin err[1].has
    /\ ret.op = "HTTPStatusCode" /\ ret.out.code = 403

\* C6: for a non-nil error HTTPStatusCode returns 500 exactly when none of
\* the five predicates is true; a plain error of errors.New, wrapped or not,
\* gets 500.
C6_DefaultIs500 ==
    (ret.op = "HTTPStatusCode" /\ err # Nil)
        => /\ ~ret.out.panicked
           /\ ret.out.code = 500 <=> \A c \in Cats : ~Is(c, err)
           /\ (origin.ctor = "errors.New" /\ Retrievable(err)) => ret.out.code = 500

C6_Witness ==
    /\ origin.ctor = "errors.New" /\ Len(err) = 2 /\ err[1].typ = "withMessage"
    /\ ret.op = "HTTPStatusCode" /\ ret.out.code = 500

\* C7: every predicate returns false for the nil error.
C7_NilIsNoCategory == (ret.op = "Is" /\ err = Nil) => ~ret.b

C7_Witness == ret.op = "Is" /\ ret.cat = "BadInput" /\ err = Nil /\ ~ret.b

\* C8: a predicate's answer depends on the root cause alone: every chain
\* that ends in the root of err gets the answer err got, and a category that
\* a wrapping layer implements is not reported when the root does not carry
\* it.
C8_AnswerDependsOnRootOnly ==
    (ret.op = "Is")
        => /\ \A w \in Stacks : Is(ret.cat, w \o ChainRoot(err)) = ret.b
           /\ Retrievable(err) => (ret.b <=> ret.cat \in err[Len(err)].yes)

C8_Witness ==
    /\ Retrievable(err) /\ Len(err) = 2
    /\ err[1] = custom(Cats, Cats, TRUE)
    /\ "Forbidden" \notin err[2].yes
    /\ ret.op = "Is" /\ ret.cat = "Forbidden" /\ ~ret.b

\* C9: NewC(s).Error() is s, and NewCf(format, args).Error() is the
\* formatted string, the text of NewC(Sprintf(format, args)).Error(); in
\* particular NewCf("%s-%d", "a", 1).Error() is "a-1".
C9_MessageRoundTrip ==
    (ret.op = "Error" /\ Len(err) = 1)
        => /\ origin.ctor = "New" => ret.text = origin.s
           /\ origin.ctor = "Newf"
                => /\ ret.text = Sprintf(origin.f, origin.a)
                   /\ ret.text = Error(New(origin.cat, Sprintf(origin.f, origin.a)))
           /\ (/\ origin.ctor = "Newf"
               /\ origin.f = <<"%s", "-", "%d">>
               /\ origin.a = <<StrArg("a"), IntArg(1)>>) => ret.text = "a-1"

C9_Witness ==
    /\ origin.ctor = "Newf" /\ origin.cat = "BadInput"
    /\ origin.f = <<"%s", "-", "%d">> /\ origin.a = <<StrArg("a"), IntArg(1)>>
    /\ Len(err) = 1
    /\ ret.op = "Error" /\ ret.text = "a-1"

\* C10: HTTPStatusCode of a chain whose layers keep their cause retrievable
\* is HTTPStatusCode of its root; for a categorized root it is the code of
\* the category the constructor attached.
C10_StatusInvariantUnderWrapping ==
    (ret.op = "HTTPStatusCode" /\ Retrievable(err))
        => /\ ret.out = HTTPStatusCode(RootOf(err))
           /\ Categorized => ret.out.code = CodeOf(origin.cat)

C10_Witness ==
    /\ origin.ctor = "New" /\ origin.cat = "BadInput"
    /\ Len(err) = 3 /\ Retrievable(err)
    /\ ret.op = "HTTPStatusCode" /\ ret.out.code = 400

====
